---- MODULE Spec2Model ----
(***************************************************************************)
(* A model of the GitHub MCP server: main (startup, credential check,      *)
(* tool registration, serving) and its three tool handlers                 *)
(* list_pull_requests, get_unresolved_comments and get_full_comments.      *)
(*                                                                         *)
(* Strings that the code inspects character by character (the pull         *)
(* request URL) are tuples of one-character strings.  Comment bodies are   *)
(* run-length encoded: a tuple of runs <<ch, n>>, n >= 1 copies of ch,     *)
(* where a newline is always its own run of length 1.  Text the code       *)
(* builds with fmt.Sprintf is a tuple of pieces, one per Sprintf call,     *)
(* each piece being <<format, arg1, ...>>.                                 *)
(***************************************************************************)
EXTENDS Integers, Sequences, FiniteSets, TLC

VARIABLES
    pc,         \* position of main: "start", "created", "list_added",
                \* "unresolved_added", "full_added", "serving", "exited"
    token,      \* the GITHUB_TOKEN environment variable
    identity,   \* the outcomes of the Users.Get calls made so far
    tools,      \* the tools registered with the MCP server
    last,       \* the tool invocation in flight: arguments, fetch, result
    arg,        \* the input of the pure function under study
    ret         \* its result

vars == <<pc, token, identity, tools, last, arg, ret>>

None == "none"

\* ------------------------------------------------------------ characters

Digits == {"0", "1", "2", "3", "4", "5", "6", "7", "8", "9"}

DigitVal(c) ==
    CASE c = "0" -> 0 [] c = "1" -> 1 [] c = "2" -> 2 [] c = "3" -> 3
      [] c = "4" -> 4 [] c = "5" -> 5 [] c = "6" -> 6 [] c = "7" -> 7
      [] c = "8" -> 8 [] c = "9" -> 9

InClass(cls, c) ==
    CASE cls = "notslash" -> c # "/"
      [] cls = "digit" -> c \in Digits
      [] cls = "notslashcolon" -> c \notin {"/", ":"}

\* ------------------------------------------------------------ regexp

Lit(s) == [i \in 1..Len(s) |-> [k |-> "lit", c |-> s[i]]]
Plus(cls, g) == <<[k |-> "plus", cls |-> cls, g |-> g]>>

HttpsGithubCom ==
    <<"h","t","t","p","s",":","/","/","g","i","t","h","u","b",".","c","o","m","/">>
SlashPull == <<"/","p","u","l","l","/">>

\* https://github\.com/([^/]+)/([^/]+)/pull/(\d+)
prURLRegex ==
    Lit(HttpsGithubCom) \o Plus("notslash", 1) \o Lit(<<"/">>)
        \o Plus("notslash", 2) \o Lit(SlashPull) \o Plus("digit", 3)

NoMatch == [ok |-> FALSE]

RECURSIVE RunLen(_, _, _)
\* the number of consecutive characters of class cls in s from position i
RunLen(cls, s, i) ==
    IF i <= Len(s) /\ InClass(cls, s[i]) THEN 1 + RunLen(cls, s, i + 1) ELSE 0

RECURSIVE MatchHere(_, _, _, _)
RECURSIVE TryPlus(_, _, _, _, _)

\* the regexp re matched against s from position i: a greedy, backtracking
\* match, the first that succeeds (leftmost-first semantics)
MatchHere(re, s, i, caps) ==
    IF re = <<>> THEN [ok |-> TRUE, end |-> i - 1, caps |-> caps]
    ELSE LET e == Head(re) IN
         IF e.k = "lit"
         THEN IF i <= Len(s) /\ s[i] = e.c
              THEN MatchHere(Tail(re), s, i + 1, caps)
              ELSE NoMatch
         ELSE TryPlus(re, s, i, RunLen(e.cls, s, i), caps)

TryPlus(re, s, i, n, caps) ==
    IF n = 0 THEN NoMatch
    ELSE LET g == Head(re).g
             r == MatchHere(Tail(re), s, i + n,
                            [caps EXCEPT ![g] = SubSeq(s, i, i + n - 1)])
         IN IF r.ok THEN r ELSE TryPlus(re, s, i, n - 1, caps)

NoCaps == [g \in 1..3 |-> <<>>]

RECURSIVE FindFrom(_, _, _)
FindFrom(re, s, i) ==
    IF i > Len(s) + 1 THEN <<>>
    ELSE LET r == MatchHere(re, s, i, NoCaps) IN
         IF r.ok
         THEN <<SubSeq(s, i, r.end), r.caps[1], r.caps[2], r.caps[3]>>
         ELSE FindFrom(re, s, i + 1)

\* a variant that matches at the start of the string only
FindStringSubmatchAnchored(re, s) ==
    LET r == MatchHere(re, s, 1, NoCaps) IN
    IF r.ok THEN <<SubSeq(s, 1, r.end), r.caps[1], r.caps[2], r.caps[3]>>
    ELSE <<>>

\* regexp.FindStringSubmatch: the leftmost match and its groups, or nil
FindStringSubmatch(re, s) == FindFrom(re, s, 1)

\* ------------------------------------------------------------ strconv.Atoi

MaxInt64Digits ==
    <<"9","2","2","3","3","7","2","0","3","6","8","5","4","7","7","5","8","0","7">>

RECURSIVE StripZeros(_)
StripZeros(d) ==
    IF Len(d) > 1 /\ Head(d) = "0" THEN StripZeros(Tail(d)) ELSE d

RECURSIVE LexLeq(_, _)
\* a <= b for digit strings of the same length
LexLeq(a, b) ==
    IF a = <<>> THEN TRUE
    ELSE IF DigitVal(Head(a)) < DigitVal(Head(b)) THEN TRUE
    ELSE IF DigitVal(Head(a)) > DigitVal(Head(b)) THEN FALSE
    ELSE LexLeq(Tail(a), Tail(b))

RECURSIVE DecValue(_, _)
DecValue(d, acc) ==
    IF d = <<>> THEN acc ELSE DecValue(Tail(d), 10 * acc + DigitVal(Head(d)))

\* strconv.Atoi on a string of digits: its value, or a range error when it
\* exceeds the 64-bit int
Atoi(d) ==
    LET z == StripZeros(d) IN
    IF Len(z) > Len(MaxInt64Digits)
           \/ (Len(z) = Len(MaxInt64Digits) /\ ~LexLeq(z, MaxInt64Digits))
    THEN [err |-> "range", n |-> 0]
    ELSE [err |-> None, n |-> DecValue(z, 0)]

\* ------------------------------------------------------------ parsePRURL

ErrInvalidFormat == "invalid PR URL format. Expected: .../owner/repo/pull/123"
ErrInvalidNumber == "invalid PR number: %s"

parsePRURL(url) ==
    LET matches == FindStringSubmatch(prURLRegex, url) IN
    IF Len(matches) # 4
    THEN [owner |-> <<>>, repo |-> <<>>, number |-> 0, err |-> ErrInvalidFormat]
    ELSE LET n == Atoi(matches[4]) IN
         IF n.err # None
         THEN [owner |-> <<>>, repo |-> <<>>, number |-> 0, err |-> ErrInvalidNumber]
         ELSE [owner |-> matches[2], repo |-> matches[3], number |-> n.n,
               err |-> None]

\* ------------------------------------------------------------ comment bodies

LF == "\n"
EAcute == "U+00E9"

\* the number of bytes of the UTF-8 encoding of a character
Utf8Len(c) == IF c = EAcute THEN 2 ELSE 1

RECURSIVE ByteLen(_)
\* Go's len(s) of a string: its length in bytes
ByteLen(body) ==
    IF body = <<>> THEN 0
    ELSE Head(body)[2] * Utf8Len(Head(body)[1]) + ByteLen(Tail(body))

RECURSIVE SplitAcc(_, _, _)
SplitAcc(body, cur, acc) ==
    IF body = <<>> THEN Append(acc, cur)
    ELSE IF Head(body)[1] = LF
         THEN SplitAcc(IF Head(body)[2] > 1
                       THEN <<<<LF, Head(body)[2] - 1>>>> \o Tail(body)
                       ELSE Tail(body),
                       <<>>, Append(acc, cur))
         ELSE SplitAcc(Tail(body), Append(cur, Head(body)), acc)

\* strings.Split(body, "\n")
Split(body) == SplitAcc(body, <<>>, <<>>)

RECURSIVE Join(_)
\* strings.Join(lines, "\n")
Join(lines) ==
    IF lines = <<>> THEN <<>>
    ELSE IF Len(lines) = 1 THEN lines[1]
    ELSE lines[1] \o <<<<LF, 1>>>> \o Join(Tail(lines))

PreviewBytes == 200
PreviewLines == 3

FmtComment == "  - @%s: %s\n"
FmtCommentElided == "  - @%s: %s\n... +%d lines (ctrl+o to expand)\n"

\* a variant that looks at the number of lines alone
UnresolvedCommentByLines(comment) ==
    LET lines == Split(comment.body) IN
    IF Len(lines) > PreviewLines
    THEN <<FmtCommentElided, comment.login,
           Join(SubSeq(lines, 1, PreviewLines)), Len(lines) - PreviewLines>>
    ELSE <<FmtComment, comment.login, comment.body>>

\* the text get_unresolved_comments writes for one comment
UnresolvedComment(comment) ==
    LET fullBody == comment.body IN
    IF ByteLen(fullBody) > PreviewBytes
    THEN LET lines == Split(fullBody) IN
         IF Len(lines) > PreviewLines
         THEN <<FmtCommentElided, comment.login,
                Join(SubSeq(lines, 1, PreviewLines)), Len(lines) - PreviewLines>>
         ELSE <<FmtComment, comment.login, fullBody>>
    ELSE <<FmtComment, comment.login, fullBody>>

\* ------------------------------------------------------------ tool results

NewToolResultError(piece) == [isError |-> TRUE, text |-> <<piece>>]
NewToolResultText(pieces) == [isError |-> FALSE, text |-> pieces]

\* ------------------------------------------------------------ arguments

Absent == [t |-> "absent", v |-> None]
Str(v) == [t |-> "string", v |-> v]
Bool(b) == [t |-> "bool", v |-> b]
Num(n) == [t |-> "number", v |-> n]

\* mcp.CallToolRequest.GetString: the argument when it is present and a
\* string, the default otherwise
GetString(args, key, default) ==
    IF args[key].t = "string" THEN args[key].v ELSE default

\* mcp.CallToolRequest.RequireString
RequireString(args, key) ==
    IF args[key].t = "string"
    THEN [err |-> FALSE, v |-> args[key].v]
    ELSE [err |-> TRUE, v |-> <<>>]

\* ------------------------------------------------------------ fetches

StatusOK == 200
StatusUnauthorized == 401
PerPage == 15

NoResp == [kind |-> "none"]

RECURSIVE SearchHits(_, _)
\* the index entries the search expression selects, in index order: the
\* index is kept by last update, most recent first
SearchHits(index, query) ==
    IF index = <<>> THEN <<>>
    ELSE LET rest == SearchHits(Tail(index), query)
             keep == \A i \in 1..Len(query) :
                        query[i][1] = "is:%s" => Head(index).state = query[i][2]
         IN IF keep THEN <<Head(index)>> \o rest ELSE rest

\* restClient.Search.Issues(ctx, query, opts) against what the environment
\* gives this call: a transport error, or a status and the search index
SearchIssues(query, opts, env) ==
    IF env.err \/ env.status # StatusOK
    THEN [kind |-> "rest", err |-> env.err, status |-> env.status,
          total |-> 0, issues |-> <<>>]
    ELSE LET hits == SearchHits(env.index, query) IN
         [kind |-> "rest", err |-> FALSE, status |-> env.status,
          total |-> Len(hits),
          issues |-> SubSeq(hits, 1, IF Len(hits) < opts.PerPage
                                     THEN Len(hits) ELSE opts.PerPage)]

\* graphqlClient.Query(ctx, &query, variables) against what the environment
\* gives this call: an error, or the review threads of the pull request
GraphqlQuery(variables, env) ==
    [kind |-> "graphql", err |-> env.err,
     threads |-> IF env.err THEN <<>> ELSE env.threads]

\* ------------------------------------------------------------ list_pull_requests

\* a variant whose default is "all"
ListStateDefaultAll(args) == GetString(args, "state", "all")

\* state := req.GetString("state", "open")
ListState(args) == GetString(args, "state", "open")

\* a variant that passes every state but "all" on to the search
QueryPartsAnyState(state) ==
    <<<<"is:pr">>, <<"author:@me">>>>
        \o (IF state # "all" THEN <<<<"is:%s", state>>>> ELSE <<>>)

\* the search expression, kept as the parts strings.Join puts together
QueryParts(state) ==
    <<<<"is:pr">>, <<"author:@me">>>>
        \o (IF state = "open" \/ state = "closed"
            THEN <<<<"is:%s", state>>>> ELSE <<>>)

listPullRequestsHandler(args, env) ==
    LET state == ListState(args)
        queryParts == QueryParts(state)
        opts == [Sort |-> "updated", Order |-> "desc", PerPage |-> PerPage]
        fetch == <<[api |-> "search", query |-> queryParts, opts |-> opts]>>
        resp == SearchIssues(queryParts, opts, env)
    IN  IF resp.err
        THEN [fetch |-> fetch, resp |-> resp, result |->
                NewToolResultError(<<"Error searching GitHub: %v">>)]
        ELSE IF resp.status # StatusOK
        THEN [fetch |-> fetch, resp |-> resp, result |->
                NewToolResultError(<<"GitHub API returned non-200 status: %s",
                                     resp.status>>)]
        ELSE IF resp.total = 0
        THEN [fetch |-> fetch, resp |-> resp, result |->
                NewToolResultText(<<<<"No pull requests found with state: %s",
                                      state>>>>)]
        ELSE [fetch |-> fetch, resp |-> resp, result |->
                NewToolResultText(
                    <<<<"Found %d pull requests (state: %s):\n\n",
                        resp.total, state>>>>
                    \o [i \in 1..Len(resp.issues) |->
                          <<"- [State: %s] %s\n  %s\n", resp.issues[i].state,
                            resp.issues[i].title, resp.issues[i].url>>])]

\* ------------------------------------------------------------ get_unresolved_comments

ErrMissingURL == "Missing required argument: pull_request_url"
ErrInvalidURL == "Invalid PR URL: %v"
ErrQueryFailed == "GitHub GraphQL query failed: %v"
MsgNoUnresolved == "No unresolved comments found on that PR."
MsgNoComments == "No comments found on that PR."

FmtUnresolvedHeader == "Unresolved Thread on: %s (Line %d)\n"
FmtUnresolvedLink == "  (Thread Link: %s)\n\n"
FmtUnresolvedFound == "Found %d unresolved comment threads:\n\n%s"

Variables(ref) ==
    [owner |-> ref.owner, repo |-> ref.repo, prNumber |-> ref.number]

\* a variant that takes the header and the link from the last comment
UnresolvedThreadLastComment(thread) ==
    IF Len(thread.comments) > 0
    THEN LET lastComment == thread.comments[Len(thread.comments)] IN
         <<<<FmtUnresolvedHeader, lastComment.path, lastComment.line>>>>
         \o [i \in 1..Len(thread.comments) |->
                UnresolvedComment(thread.comments[i])]
         \o <<<<FmtUnresolvedLink, lastComment.url>>>>
    ELSE <<>>

\* what one iteration of the loop over the threads writes
UnresolvedThread(thread) ==
    IF Len(thread.comments) > 0
    THEN LET firstComment == thread.comments[1] IN
         <<<<FmtUnresolvedHeader, firstComment.path, firstComment.line>>>>
         \o [i \in 1..Len(thread.comments) |->
                UnresolvedComment(thread.comments[i])]
         \o <<<<FmtUnresolvedLink, firstComment.url>>>>
    ELSE <<>>

RECURSIVE UnresolvedLoopCountingBlocks(_, _, _)
\* a variant that counts a thread only when it writes a block for it
UnresolvedLoopCountingBlocks(threads, unresolvedCount, responseBuilder) ==
    IF threads = <<>>
    THEN [count |-> unresolvedCount, builder |-> responseBuilder]
    ELSE LET thread == Head(threads) IN
         IF ~thread.isResolved /\ Len(thread.comments) > 0
         THEN UnresolvedLoopCountingBlocks(
                  Tail(threads), unresolvedCount + 1,
                  responseBuilder \o UnresolvedThread(thread))
         ELSE UnresolvedLoopCountingBlocks(Tail(threads), unresolvedCount,
                                           responseBuilder)

RECURSIVE UnresolvedLoop(_, _, _)
\* the loop over query.Repository.PullRequest.ReviewThreads.Nodes
UnresolvedLoop(threads, unresolvedCount, responseBuilder) ==
    IF threads = <<>>
    THEN [count |-> unresolvedCount, builder |-> responseBuilder]
    ELSE LET thread == Head(threads) IN
         IF ~thread.isResolved
         THEN UnresolvedLoop(Tail(threads), unresolvedCount + 1,
                             responseBuilder \o UnresolvedThread(thread))
         ELSE UnresolvedLoop(Tail(threads), unresolvedCount, responseBuilder)

\* the formatting pass of get_unresolved_comments
FormatUnresolved(threads) ==
    LET r == UnresolvedLoop(threads, 0, <<>>) IN
    IF r.count = 0
    THEN NewToolResultText(<<<<MsgNoUnresolved>>>>)
    ELSE NewToolResultText(<<<<FmtUnresolvedFound, r.count>>>> \o r.builder)

\* a variant that formats whatever a failed query left behind
getUnresolvedCommentsHandlerPartial(args, env) ==
    LET prURL == RequireString(args, "pull_request_url") IN
    IF prURL.err
    THEN [fetch |-> <<>>, resp |-> NoResp,
          result |-> NewToolResultError(<<ErrMissingURL>>)]
    ELSE LET ref == parsePRURL(prURL.v) IN
         IF ref.err # None
         THEN [fetch |-> <<>>, resp |-> NoResp,
               result |-> NewToolResultError(<<ErrInvalidURL, ref.err>>)]
         ELSE LET resp == GraphqlQuery(Variables(ref), env) IN
              [fetch |-> <<[api |-> "graphql", variables |-> Variables(ref)]>>,
               resp |-> resp, result |-> FormatUnresolved(resp.threads)]

getUnresolvedCommentsHandler(args, env) ==
    LET prURL == RequireString(args, "pull_request_url") IN
    IF prURL.err
    THEN [fetch |-> <<>>, resp |-> NoResp,
          result |-> NewToolResultError(<<ErrMissingURL>>)]
    ELSE LET ref == parsePRURL(prURL.v) IN
         IF ref.err # None
         THEN [fetch |-> <<>>, resp |-> NoResp,
               result |-> NewToolResultError(<<ErrInvalidURL, ref.err>>)]
         ELSE LET fetch == <<[api |-> "graphql", variables |-> Variables(ref)]>>
                  resp == GraphqlQuery(Variables(ref), env)
              IN IF resp.err
                 THEN [fetch |-> fetch, resp |-> resp,
                       result |-> NewToolResultError(<<ErrQueryFailed>>)]
                 ELSE [fetch |-> fetch, resp |-> resp,
                       result |-> FormatUnresolved(resp.threads)]

\* ------------------------------------------------------------ get_full_comments

FmtFullHeader == "=== %s Thread on: %s (Line %d) ===\n"
FmtReply == "\n--- Reply ---\n"
FmtFullComment == "@%s:\n%s\n"
FmtFullLink == "\n(Thread Link: %s)\n\n"
FmtFullFound == "Found %d%s comment threads:\n\n%s"

\* what the loop over a thread's comments writes for comment i
FullComment(comments, i) ==
    (IF i > 1 THEN <<<<FmtReply>>>> ELSE <<>>)
    \o <<<<FmtFullComment, comments[i].login, comments[i].body>>>>

RECURSIVE FullComments(_, _)
FullComments(comments, i) ==
    IF i > Len(comments) THEN <<>>
    ELSE FullComment(comments, i) \o FullComments(comments, i + 1)

FullThread(thread) ==
    IF Len(thread.comments) > 0
    THEN LET firstComment == thread.comments[1]
             status == IF ~thread.isResolved THEN "Unresolved" ELSE "Resolved"
         IN <<<<FmtFullHeader, status, firstComment.path, firstComment.line>>>>
            \o FullComments(thread.comments, 1)
            \o <<<<FmtFullLink, firstComment.url>>>>
    ELSE <<>>

RECURSIVE FullLoop(_, _, _, _)
FullLoop(threads, unresolvedOnly, threadCount, responseBuilder) ==
    IF threads = <<>>
    THEN [count |-> threadCount, builder |-> responseBuilder]
    ELSE LET thread == Head(threads) IN
         IF unresolvedOnly /\ thread.isResolved
         THEN FullLoop(Tail(threads), unresolvedOnly, threadCount,
                       responseBuilder)
         ELSE FullLoop(Tail(threads), unresolvedOnly, threadCount + 1,
                       responseBuilder \o FullThread(thread))

\* a variant with one none-found message for both cases
FormatFullOneMessage(threads, unresolvedOnly) ==
    LET r == FullLoop(threads, unresolvedOnly, 0, <<>>) IN
    IF r.count = 0
    THEN NewToolResultText(<<<<MsgNoUnresolved>>>>)
    ELSE LET filterText == IF unresolvedOnly THEN " unresolved" ELSE "" IN
         NewToolResultText(<<<<FmtFullFound, r.count, filterText>>>> \o r.builder)

\* the formatting pass of get_full_comments
FormatFull(threads, unresolvedOnly) ==
    LET r == FullLoop(threads, unresolvedOnly, 0, <<>>) IN
    IF r.count = 0
    THEN IF unresolvedOnly
         THEN NewToolResultText(<<<<MsgNoUnresolved>>>>)
         ELSE NewToolResultText(<<<<MsgNoComments>>>>)
    ELSE LET filterText == IF unresolvedOnly THEN " unresolved" ELSE "" IN
         NewToolResultText(<<<<FmtFullFound, r.count, filterText>>>> \o r.builder)

\* unresolvedOnlyStr := req.GetString("unresolved_only", "false")
UnresolvedOnly(args) == GetString(args, "unresolved_only", "false") = "true"

getFullCommentsHandler(args, env) ==
    LET prURL == RequireString(args, "pull_request_url") IN
    IF prURL.err
    THEN [fetch |-> <<>>, resp |-> NoResp,
          result |-> NewToolResultError(<<ErrMissingURL>>)]
    ELSE LET unresolvedOnly == UnresolvedOnly(args)
             ref == parsePRURL(prURL.v)
         IN
         IF ref.err # None
         THEN [fetch |-> <<>>, resp |-> NoResp,
               result |-> NewToolResultError(<<ErrInvalidURL, ref.err>>)]
         ELSE LET fetch == <<[api |-> "graphql", variables |-> Variables(ref)]>>
                  resp == GraphqlQuery(Variables(ref), env)
              IN IF resp.err
                 THEN [fetch |-> fetch, resp |-> resp,
                       result |-> NewToolResultError(<<ErrQueryFailed>>)]
                 ELSE [fetch |-> fetch, resp |-> resp,
                       result |-> FormatFull(resp.threads, unresolvedOnly)]

\* ------------------------------------------------------------ startup

\* a variant that rejects the unauthorized status alone
validateCredentialsOnly401(env) ==
    IF env.err THEN "authentication test failed: %v"
    ELSE IF env.status = StatusUnauthorized THEN "invalid or expired token"
    ELSE None

\* validateCredentials on the outcome env of client.Users.Get(ctx, "")
validateCredentials(env) ==
    IF env.err THEN "authentication test failed: %v"
    ELSE IF env.status = StatusUnauthorized THEN "invalid or expired token"
    ELSE IF env.status # StatusOK THEN "unexpected API response: %s"
    ELSE None

ToolNames == {"list_pull_requests", "get_unresolved_comments", "get_full_comments"}

NoCall == [tool |-> None]

\* main calls newGithubService: the token is read, the clients are built and
\* the credentials are validated; log.Fatalf ends the process on an error
NewGithubService ==
    /\ pc = "start"
    /\ IF token = <<>>
       THEN /\ pc' = "exited"
            /\ UNCHANGED identity
       ELSE \E env \in {[err |-> TRUE, status |-> 0]}
                        \cup [err : {FALSE}, status : {200, 401, 403, 500}] :
               /\ identity' = Append(identity, env)
               /\ pc' = IF validateCredentials(env) = None
                        THEN "created" ELSE "exited"
    /\ UNCHANGED <<token, tools, last, arg, ret>>

AddListTool ==
    /\ pc = "created"
    /\ tools' = tools \cup {"list_pull_requests"}
    /\ pc' = "list_added"
    /\ UNCHANGED <<token, identity, last, arg, ret>>

AddUnresolvedTool ==
    /\ pc = "list_added"
    /\ tools' = tools \cup {"get_unresolved_comments"}
    /\ pc' = "unresolved_added"
    /\ UNCHANGED <<token, identity, last, arg, ret>>

AddFullTool ==
    /\ pc = "unresolved_added"
    /\ tools' = tools \cup {"get_full_comments"}
    /\ pc' = "full_added"
    /\ UNCHANGED <<token, identity, last, arg, ret>>

ServeStdio ==
    /\ pc = "full_added"
    /\ pc' = "serving"
    /\ UNCHANGED <<token, identity, tools, last, arg, ret>>

\* server.ServeStdio returns an error: log.Fatalf ends the process
ServeStdioFails ==
    /\ pc = "serving"
    /\ pc' = "exited"
    /\ UNCHANGED <<token, identity, tools, last, arg, ret>>

\* ------------------------------------------------------------ inputs

MaxIssues == 2
MaxThreads == 2
MaxComments == 2
MaxLines == 4

A(n) == <<<<"a", n>>>>

LineShapes == {<<>>, A(1), A(97), A(100), <<<<EAcute, 60>>>>}

\* the comment bodies of at most MaxLines lines
Bodies ==
    {Join(ls) : ls \in UNION {[1..n -> LineShapes] : n \in 1..MaxLines}}

FixtureBody(k) ==
    CASE k % 3 = 0 -> Join(<<A(100), A(100), A(1), <<>>, A(100)>>)
      [] k % 3 = 1 -> A(1)
      [] k % 3 = 2 -> Join(<<A(100), A(100), A(100)>>)

Comment(i, j, body) ==
    [login |-> <<"user", j>>, body |-> body, path |-> <<"file", i, j>>,
     line |-> 10 * i + j, url |-> <<"link", i, j>>]

Thread(i, shape) ==
    [isResolved |-> shape.r,
     comments |-> [j \in 1..shape.n |-> Comment(i, j, FixtureBody(i + j))]]

ThreadLists ==
    {[i \in 1..Len(sh) |-> Thread(i, sh[i])] :
        sh \in UNION {[1..n -> [r : BOOLEAN, n : 0..MaxComments]] :
                        n \in 0..MaxThreads}}

GraphqlEnvs ==
    {[err |-> TRUE, threads |-> <<>>]} \cup [err : {FALSE}, threads : ThreadLists]

Issue(i, state) ==
    [state |-> state, title |-> <<"title", i>>, url |-> <<"pr", i>>]

Indexes ==
    {[i \in 1..Len(st) |-> Issue(i, st[i])] :
        st \in UNION {[1..n -> {"open", "closed"}] : n \in 0..MaxIssues}}

RestEnvs ==
    {[err |-> TRUE, status |-> 0, index |-> <<>>],
     [err |-> FALSE, status |-> 500, index |-> <<>>]}
    \cup [err : {FALSE}, status : {StatusOK}, index : Indexes]

UrlOK ==
    HttpsGithubCom \o <<"o">> \o <<"/">> \o <<"r">> \o SlashPull \o <<"7">>
UrlIssue ==
    HttpsGithubCom \o <<"o">> \o <<"/">> \o <<"r">>
        \o <<"/","i","s","s","u","e","s","/">> \o <<"7">>

UrlArgs == {Absent, Num(7), Str(UrlOK), Str(UrlIssue)}
FlagArgs == {Absent, Str("true"), Str("false"), Bool(TRUE), Bool(FALSE)}
StateArgs == {Absent, Str("open"), Str("closed"), Str("all"), Str("bogus")}

Args(url, flag, state) ==
    [k \in {"pull_request_url", "unresolved_only", "state"} |->
        CASE k = "pull_request_url" -> url
          [] k = "unresolved_only" -> flag
          [] k = "state" -> state]

\* ------------------------------------------------------------ requests

Call(tool, args, r) ==
    [tool |-> tool, args |-> args, fetch |-> r.fetch, resp |-> r.resp,
     result |-> r.result]

ListPullRequests ==
    /\ pc = "serving" /\ "list_pull_requests" \in tools /\ last.tool = None
    /\ \E state \in StateArgs, env \in RestEnvs :
          LET args == Args(Absent, Absent, state) IN
          last' = Call("list_pull_requests", args,
                       listPullRequestsHandler(args, env))
    /\ UNCHANGED <<pc, token, identity, tools, arg, ret>>

GetUnresolvedComments ==
    /\ pc = "serving" /\ "get_unresolved_comments" \in tools /\ last.tool = None
    /\ \E url \in UrlArgs, env \in GraphqlEnvs :
          LET args == Args(url, Absent, Absent) IN
          last' = Call("get_unresolved_comments", args,
                       getUnresolvedCommentsHandler(args, env))
    /\ UNCHANGED <<pc, token, identity, tools, arg, ret>>

GetFullComments ==
    /\ pc = "serving" /\ "get_full_comments" \in tools /\ last.tool = None
    /\ \E url \in UrlArgs, flag \in FlagArgs, env \in GraphqlEnvs :
          LET args == Args(url, flag, Absent) IN
          last' = Call("get_full_comments", args,
                       getFullCommentsHandler(args, env))
    /\ UNCHANGED <<pc, token, identity, tools, arg, ret>>

\* the server writes the handler's result to the client
Respond ==
    /\ pc = "serving"
    /\ last.tool # None
    /\ last' = NoCall
    /\ UNCHANGED <<pc, token, identity, tools, arg, ret>>

Init ==
    /\ pc = "start"
    /\ token \in {<<>>, <<"ghp_token">>}
    /\ identity = <<>>
    /\ tools = {}
    /\ last = NoCall
    /\ arg = None
    /\ ret = None

Next ==
    \/ NewGithubService
    \/ AddListTool
    \/ AddUnresolvedTool
    \/ AddFullTool
    \/ ServeStdio
    \/ ServeStdioFails
    \/ ListPullRequests
    \/ GetUnresolvedComments
    \/ GetFullComments
    \/ Respond

Spec == Init /\ [][Next]_vars

\* ------------------------------------------------------------ properties

Succeeded(tool) == last.tool = tool /\ ~last.result.isError

\* the caller asked for unresolved threads only, with the string "true"
AskedString ==
    /\ last.args["unresolved_only"].t = "string"
    /\ last.args["unresolved_only"].v = "true"

\* the caller asked for unresolved threads only, with the boolean true
AskedBool ==
    /\ last.args["unresolved_only"].t = "bool"
    /\ last.args["unresolved_only"].v

\* the threads of the fetch that the invocation's resolution filter keeps
Kept(threads) ==
    IF last.tool = "get_unresolved_comments"
    THEN SelectSeq(threads, LAMBDA t : ~t.isResolved)
    ELSE IF AskedString
         THEN SelectSeq(threads, LAMBDA t : ~t.isResolved)
         ELSE threads

WithComments(threads) == SelectSeq(threads, LAMBDA t : Len(t.comments) > 0)

Headers(text) ==
    SelectSeq(text, LAMBDA p : p[1] \in {FmtUnresolvedHeader, FmtFullHeader})

IsNoneFound(text) ==
    Len(text) = 1 /\ text[1][1] \in {MsgNoUnresolved, MsgNoComments}

\* C1 as stated: a thread with zero comments gets no block and is not
\* counted either, so the count N equals the number of blocks and a result
\* whose kept threads all have zero comments gives the none-found message.
C1_AsStated ==
    (Succeeded("get_unresolved_comments") \/ Succeeded("get_full_comments")) =>
        LET emitted == WithComments(Kept(last.resp.threads))
            text == last.result.text
        IN /\ Len(Headers(text)) = Len(emitted)
           /\ IF Len(emitted) = 0 THEN IsNoneFound(text)
              ELSE text[1][2] = Len(Headers(text))

\* C1 amended: a thread with zero comments gets no header and no block, but
\* it is counted: N is the number of threads the resolution filter keeps,
\* with or without comments, and the none-found message is given only when
\* the filter keeps no thread at all.
C1_EmptyThreadCountedNotEmitted ==
    (Succeeded("get_unresolved_comments") \/ Succeeded("get_full_comments")) =>
        LET kept == Kept(last.resp.threads)
            text == last.result.text
        IN /\ Len(Headers(text)) = Len(WithComments(kept))
           /\ IF Len(kept) = 0 THEN IsNoneFound(text)
              ELSE ~IsNoneFound(text) /\ text[1][2] = Len(kept)

C1_Witness ==
    /\ Succeeded("get_unresolved_comments")
    /\ \E i, j \in 1..Len(last.resp.threads) :
          /\ ~last.resp.threads[i].isResolved
          /\ Len(last.resp.threads[i].comments) = 0
          /\ ~last.resp.threads[j].isResolved
          /\ Len(last.resp.threads[j].comments) > 0

\* C2: with unresolved_only given as true, as the boolean the schema
\* declares or as the string "true", get_full_comments emits no resolved
\* thread and counts the unresolved threads only.
C2_UnresolvedOnlyHonoured ==
    (Succeeded("get_full_comments") /\ (AskedBool \/ AskedString)) =>
        LET text == last.result.text
            unresolved == SelectSeq(last.resp.threads, LAMBDA t : ~t.isResolved)
        IN /\ \A i \in 1..Len(text) :
                 text[i][1] = FmtFullHeader => text[i][2] # "Resolved"
           /\ IF Len(unresolved) = 0 THEN text[1][1] = MsgNoUnresolved
              ELSE text[1][1] = FmtFullFound /\ text[1][2] = Len(unresolved)

\* the header and link lines of a report, in the order written
Frame(text) ==
    SelectSeq(text, LAMBDA p : p[1] \in {FmtUnresolvedHeader, FmtUnresolvedLink,
                                         FmtFullHeader, FmtFullLink})

RECURSIVE UnresolvedFrame(_)
\* the header and link lines get_unresolved_comments is to write
UnresolvedFrame(threads) ==
    IF threads = <<>> THEN <<>>
    ELSE LET t == Head(threads) IN
         (IF ~t.isResolved /\ Len(t.comments) > 0
          THEN <<<<FmtUnresolvedHeader, t.comments[1].path, t.comments[1].line>>,
                 <<FmtUnresolvedLink, t.comments[1].url>>>>
          ELSE <<>>) \o UnresolvedFrame(Tail(threads))

RECURSIVE FullFrame(_)
\* the header and link lines get_full_comments is to write for all threads
FullFrame(threads) ==
    IF threads = <<>> THEN <<>>
    ELSE LET t == Head(threads) IN
         (IF Len(t.comments) > 0
          THEN <<<<FmtFullHeader,
                   IF t.isResolved THEN "Resolved" ELSE "Unresolved",
                   t.comments[1].path, t.comments[1].line>>,
                 <<FmtFullLink, t.comments[1].url>>>>
          ELSE <<>>) \o FullFrame(Tail(threads))

\* the caller left unresolved_only out or gave it as false
AskedAll ==
    \/ last.args["unresolved_only"].t = "absent"
    \/ /\ last.args["unresolved_only"].t = "string"
       /\ last.args["unresolved_only"].v = "false"
    \/ /\ last.args["unresolved_only"].t = "bool"
       /\ ~last.args["unresolved_only"].v

\* C6: get_unresolved_comments writes no block for a resolved thread and
\* writes the unresolved threads in server order, each with the path and line
\* of its first comment in the header and the first comment's permalink at
\* the end; get_full_comments without the filter writes every thread that
\* has a comment, resolved ones labelled "Resolved" and the others
\* "Unresolved".
C6_ResolvedSkippedOrLabelled ==
    /\ Succeeded("get_unresolved_comments") =>
          Frame(last.result.text) = UnresolvedFrame(last.resp.threads)
    /\ (Succeeded("get_full_comments") /\ AskedAll) =>
          Frame(last.result.text) = FullFrame(last.resp.threads)

C6_Witness ==
    /\ Succeeded("get_full_comments") /\ AskedAll
    /\ Len(last.resp.threads) = 2
    /\ last.resp.threads[1].isResolved
    /\ Len(last.resp.threads[1].comments) = 2
    /\ ~last.resp.threads[2].isResolved
    /\ Len(last.resp.threads[2].comments) = 2

BadURL ==
    /\ last.tool \in {"get_unresolved_comments", "get_full_comments"}
    /\ \/ last.args["pull_request_url"].t # "string"
       \/ parsePRURL(last.args["pull_request_url"].v).err # None

FetchFailed ==
    /\ last.resp.kind # "none"
    /\ (last.resp.err \/ (last.resp.kind = "rest" /\ last.resp.status # StatusOK))

\* C9: a request that fails gives an error result that carries no report
\* and the server goes on serving; a missing or invalid URL issues no fetch;
\* an invocation fetches at most once and a failed fetch is not retried; a
\* report is formatted only after a successful fetch.
C9_FailuresAreToolErrors ==
    /\ [](last.tool # None =>
            /\ Len(last.fetch) <= 1
            /\ BadURL => (last.fetch = <<>> /\ last.result.isError)
            /\ (~BadURL) => Len(last.fetch) = 1
            /\ FetchFailed => last.result.isError
            /\ last.result.isError =>
                  (Len(last.result.text) = 1 /\ (BadURL \/ FetchFailed))
            /\ (~last.result.isError) => (Len(last.fetch) = 1 /\ ~FetchFailed))
    /\ [][last'.tool # last.tool => (pc = "serving" /\ pc' = "serving"
                                        /\ tools' = tools)]_vars

C9_Witness ==
    /\ last.tool = "get_full_comments"
    /\ last.resp.kind = "graphql" /\ last.resp.err
    /\ last.result.isError
    /\ pc = "serving"

IdentityOK ==
    /\ token # <<>>
    /\ Len(identity) = 1
    /\ ~identity[1].err /\ identity[1].status = StatusOK

\* C10: the tools are registered and requests are served only after the
\* token was read non-empty and exactly one identity call succeeded; a
\* missing token, a transport error, an unauthorized or another non-success
\* status end the process with no tool registered and no request served; the
\* identity call is made at most once.
C10_StartupGate ==
    /\ Len(identity) <= 1
    /\ token = <<>> => identity = <<>>
    /\ (tools # {} \/ last.tool # None
           \/ pc \in {"created", "list_added", "unresolved_added",
                      "full_added", "serving"}) => IdentityOK
    /\ ~IdentityOK => (pc \in {"start", "exited"} /\ tools = {}
                          /\ last.tool = None)
    /\ pc = "serving" => tools = ToolNames

C10_Witness ==
    /\ pc = "serving" /\ tools = ToolNames /\ last.tool = "list_pull_requests"

\* ------------------------------------------------------------ parsePRURL alone

Big20 == [i \in 1..20 |-> "9"]

Leads == {<<>>, <<"x">>, HttpsGithubCom \o <<"a", "/">>}
Schemes == {<<"h","t","t","p","s",":","/","/">>, <<"h","t","t","p",":","/","/">>,
            <<"s","s","h",":","/","/">>}
Hosts == {<<"g","i","t","h","u","b",".","c","o","m">>,
          <<"g","i","t","l","a","b",".","c","o","m">>,
          <<"g","i","t","h","u","b","X","c","o","m">>}
Owners == {<<>>, <<"o">>, <<"o","-","1">>}
Repos == {<<>>, <<"r">>}
Mids == {SlashPull, <<"/","p","u","l","l","s","/">>, <<"/">>}
Nums == {<<>>, <<"7">>, <<"0","4","2">>, <<"x">>, Big20}
Trails == {<<>>, <<"/","f","i","l","e","s">>, <<"9">>, <<" ">> \o UrlOK}

URLs ==
    {l \o sc \o h \o <<"/">> \o o \o <<"/">> \o r \o m \o n \o t :
        l \in Leads, sc \in Schemes, h \in Hosts, o \in Owners, r \in Repos,
        m \in Mids, n \in Nums, t \in Trails}

Unparsed == [owner |-> <<>>, repo |-> <<>>, number |-> 0, err |-> "unparsed"]

InitParse ==
    /\ pc = "start" /\ token = <<>> /\ identity = <<>> /\ tools = {}
    /\ last = NoCall
    /\ arg \in URLs
    /\ ret = Unparsed

ParsePRURL ==
    /\ ret = Unparsed
    /\ ret' = parsePRURL(arg)
    /\ UNCHANGED <<pc, token, identity, tools, last, arg>>

SpecParse == InitParse /\ [][ParsePRURL]_vars

\* the first index of c in s from i on, 0 when there is none
NextIdx(s, i, c) ==
    LET S == {k \in i..Len(s) : s[k] = c} IN
    IF S = {} THEN 0 ELSE CHOOSE k \in S : \A m \in S : k <= m

\* the last index of the run of digits of s that starts at i
DigitsEnd(s, i) ==
    LET S == {k \in i..Len(s) : s[k] \notin Digits} IN
    IF S = {} THEN Len(s) ELSE (CHOOSE k \in S : \A m \in S : k <= m) - 1

RECURSIVE Value(_)
\* the number a string of digits denotes
Value(d) ==
    IF d = <<>> THEN 0
    ELSE DigitVal(d[Len(d)]) + 10 * Value(SubSeq(d, 1, Len(d) - 1))

\* the digits after the leading zeros
Significant(d) ==
    LET S == {k \in 1..Len(d) : d[k] # "0"} IN
    IF S = {} THEN <<>> ELSE SubSeq(d, CHOOSE k \in S : \A m \in S : k <= m, Len(d))

\* a string of digits denotes a number of at most 2^63 - 1
FitsInt(d) ==
    LET z == Significant(d) IN
    \/ Len(z) < Len(MaxInt64Digits)
    \/ /\ Len(z) = Len(MaxInt64Digits)
       /\ \/ z = MaxInt64Digits
          \/ \E k \in 1..Len(z) :
                /\ SubSeq(z, 1, k - 1) = SubSeq(MaxInt64Digits, 1, k - 1)
                /\ DigitVal(z[k]) < DigitVal(MaxInt64Digits[k])

\* s is scheme://host/owner/repo/pull/<digits> and nothing else
WholeShape(s) ==
    LET c == NextIdx(s, 1, ":")
        h == c + 3
        p2 == NextIdx(s, h, "/")
        p3 == NextIdx(s, p2 + 1, "/")
        p4 == NextIdx(s, p3 + 1, "/")
        d == p4 + Len(SlashPull)
    IN  [ok |-> /\ c > 1
                /\ \A k \in 1..(c - 1) : s[k] # "/"
                /\ c + 2 <= Len(s) /\ s[c + 1] = "/" /\ s[c + 2] = "/"
                /\ p2 > h
                /\ p3 > p2 + 1
                /\ p4 > p3 + 1
                /\ d <= Len(s)
                /\ SubSeq(s, p4, d - 1) = SlashPull
                /\ DigitsEnd(s, d) = Len(s),
         owner |-> SubSeq(s, p2 + 1, p3 - 1),
         repo |-> SubSeq(s, p3 + 1, p4 - 1),
         digits |-> SubSeq(s, d, Len(s))]

\* C3 as stated: parsePRURL fails with the invalid-format error on every
\* string that is not scheme://host/owner/repo/pull/<digits>, and on every
\* string of that shape it returns the owner, repo and number.
C3_AsStated ==
    ret # Unparsed =>
        LET w == WholeShape(arg) IN
        IF w.ok
        THEN /\ ret.err = None
             /\ ret.owner = w.owner /\ ret.repo = w.repo
             /\ FitsInt(w.digits) => ret.number = Value(w.digits)
        ELSE ret.err = ErrInvalidFormat

\* s holds https://github.com/<owner>/<repo>/pull/<digits> from index i on
PullAt(s, i) ==
    LET a == i + Len(HttpsGithubCom)
        p3 == NextIdx(s, a, "/")
        p4 == NextIdx(s, p3 + 1, "/")
        d == p4 + Len(SlashPull)
    IN  [ok |-> /\ a - 1 <= Len(s)
                /\ SubSeq(s, i, a - 1) = HttpsGithubCom
                /\ p3 > a
                /\ p4 > p3 + 1
                /\ d <= Len(s)
                /\ SubSeq(s, p4, d - 1) = SlashPull
                /\ DigitsEnd(s, d) >= d,
         owner |-> SubSeq(s, a, p3 - 1),
         repo |-> SubSeq(s, p3 + 1, p4 - 1),
         digits |-> SubSeq(s, d, DigitsEnd(s, d))]

\* C3 amended: parsePRURL looks for https://github.com/<owner>/<repo>/pull/
\* <digits> anywhere in the string, whatever precedes or follows it.  With no
\* such substring it fails with the invalid-format error; otherwise it takes
\* the leftmost one with its longest run of digits, returns its owner, repo
\* and number when the number fits an int, and fails with the
\* invalid-number error when it does not.
C3_LeftmostGithubPull ==
    ret # Unparsed =>
        LET S == {i \in 1..Len(arg) : arg[i] = "h" /\ PullAt(arg, i).ok} IN
        IF S = {} THEN ret.err = ErrInvalidFormat
        ELSE LET m == PullAt(arg, CHOOSE i \in S : \A k \in S : i <= k) IN
             IF FitsInt(m.digits)
             THEN /\ ret.err = None
                  /\ ret.owner = m.owner /\ ret.repo = m.repo
                  /\ ret.number = Value(m.digits)
             ELSE ret.err = ErrInvalidNumber

C3_Witness ==
    /\ ret.err = None
    /\ ret.owner = <<"o","-","1">> /\ ret.number = 42
    /\ arg[1] = "x"
    /\ arg[Len(arg)] = "s"

\* ------------------------------------------------------------ the preview alone

InitPreview ==
    /\ pc = "start" /\ token = <<>> /\ identity = <<>> /\ tools = {}
    /\ last = NoCall
    /\ arg \in Bodies
    /\ ret = NoCall

\* get_unresolved_comments on one unresolved thread whose comment has body arg
PreviewComment ==
    /\ ret.tool = None
    /\ LET args == Args(Str(UrlOK), Absent, Absent)
           thread == [isResolved |-> FALSE,
                      comments |-> <<Comment(1, 1, arg)>>]
       IN ret' = Call("get_unresolved_comments", args,
                      getUnresolvedCommentsHandler(
                          args, [err |-> FALSE, threads |-> <<thread>>]))
    /\ UNCHANGED <<pc, token, identity, tools, last, arg>>

SpecPreview == InitPreview /\ [][PreviewComment]_vars

RECURSIVE RuneCount(_)
\* the number of characters of a body
RuneCount(body) ==
    IF body = <<>> THEN 0 ELSE Head(body)[2] + RuneCount(Tail(body))

RECURSIVE Utf8Bytes(_)
\* the number of bytes of a body
Utf8Bytes(body) ==
    IF body = <<>> THEN 0
    ELSE Head(body)[2] * Utf8Len(Head(body)[1]) + Utf8Bytes(Tail(body))

\* the positions of the newlines of a body
Newlines(body) == {k \in 1..Len(body) : body[k][1] = LF}

LineCount(body) == Cardinality(Newlines(body)) + 1

\* the body up to its third newline
FirstThreeLines(body) ==
    LET k3 == CHOOSE k \in Newlines(body) :
                 Cardinality({m \in Newlines(body) : m < k}) = PreviewLines - 1
    IN SubSeq(body, 1, k3 - 1)

Elided(body) ==
    <<FmtCommentElided, <<"user", 1>>, FirstThreeLines(body),
      LineCount(body) - PreviewLines>>

\* C4 as stated: the comment is cut to its first 3 lines, with a marker
\* giving the number of lines left out, exactly when its body has more than
\* 200 characters and more than 3 lines; otherwise the body is written whole.
C4_AsStated ==
    ret.tool # None =>
        ret.result.text[3] =
            IF RuneCount(arg) > PreviewBytes /\ LineCount(arg) > PreviewLines
            THEN Elided(arg)
            ELSE <<FmtComment, <<"user", 1>>, arg>>

\* C4 amended: the same, with the length of the body taken in bytes of its
\* UTF-8 encoding: a body of more than 200 bytes and more than 3 lines is
\* cut, also when it has no more than 200 characters.
C4_PreviewByBytes ==
    ret.tool # None =>
        /\ Len(ret.result.text) = 4
        /\ ret.result.text[3] =
              IF Utf8Bytes(arg) > PreviewBytes /\ LineCount(arg) > PreviewLines
              THEN Elided(arg)
              ELSE <<FmtComment, <<"user", 1>>, arg>>

C4_Witness ==
    /\ ret.tool # None
    /\ ret.result.text[3][1] = FmtCommentElided
    /\ ret.result.text[3][4] = 1
    /\ Utf8Bytes(arg) = PreviewBytes + 1

\* ------------------------------------------------------------ list_pull_requests alone

InitList ==
    /\ pc = "start" /\ token = <<>> /\ identity = <<>> /\ tools = {}
    /\ last = NoCall
    /\ arg \in RestEnvs
    /\ ret = [a \in StateArgs |-> NoCall]

\* list_pull_requests with state argument a, against the search data arg
ListWithState ==
    /\ \E a \in StateArgs :
          /\ ret[a].tool = None
          /\ LET args == Args(Absent, Absent, a) IN
             ret' = [ret EXCEPT ![a] = Call("list_pull_requests", args,
                                           listPullRequestsHandler(args, arg))]
    /\ UNCHANGED <<pc, token, identity, tools, last, arg>>

SpecList == InitList /\ [][ListWithState]_vars

Both(a, b) == ret[a].tool # None /\ ret[b].tool # None

NoStateClause == <<<<"is:pr">>, <<"author:@me">>>>

\* C5 as stated: an unrecognized state gives the query without a state
\* clause and the same output as state "all" for the same search data.
C5_AsStated ==
    Both(Str("bogus"), Str("all")) =>
        /\ ret[Str("bogus")].fetch[1].query = NoStateClause
        /\ ret[Str("bogus")].result = ret[Str("all")].result

\* what a result reads with the state it echoes left out
WithoutEcho(result) ==
    [isError |-> result.isError,
     text |-> IF result.isError THEN result.text
              ELSE <<SubSeq(result.text[1], 1, Len(result.text[1]) - 1)>>
                       \o Tail(result.text)]

Echo(result) == result.text[1][Len(result.text[1])]

\* C5 amended: an unrecognized state gives the query without a state clause,
\* the same as state "all", and for the same search data the same output but
\* for the state value, which both the no-result message and the header of
\* the list repeat as it was given ("bogus", not "all").
C5_SameButForEchoedState ==
    Both(Str("bogus"), Str("all")) =>
        LET b == ret[Str("bogus")]
            a == ret[Str("all")]
        IN /\ b.fetch[1].query = NoStateClause
           /\ b.fetch = a.fetch
           /\ WithoutEcho(b.result) = WithoutEcho(a.result)
           /\ ~b.result.isError =>
                (Echo(b.result) = "bogus" /\ Echo(a.result) = "all")

C5_Witness ==
    /\ Both(Str("bogus"), Str("all"))
    /\ ~ret[Str("bogus")].result.isError
    /\ Len(ret[Str("bogus")].result.text) = 3
    /\ Len(ret[Str("all")].result.text) = 3

\* the state a request asks for, "open" when it names none
Effective(a) == IF a.t = "string" THEN a.v ELSE "open"

\* C7: the search expression is "is:pr author:@me", followed by
\* "is:<state>" exactly when the effective state is "open" or "closed", an
\* absent state counting as "open"; the search asks for the results sorted
\* by update, descending, 15 a page; a request without state issues the query
\* and gives the result of a request with state "open".
C7_DefaultIsOpen ==
    /\ \A a \in StateArgs : ret[a].tool # None =>
          /\ ret[a].fetch[1].query =
                IF Effective(a) \in {"open", "closed"}
                THEN Append(NoStateClause, <<"is:%s", Effective(a)>>)
                ELSE NoStateClause
          /\ ret[a].fetch[1].opts =
                [Sort |-> "updated", Order |-> "desc", PerPage |-> PerPage]
    /\ Both(Absent, Str("open")) =>
          /\ ret[Absent].fetch = ret[Str("open")].fetch
          /\ ret[Absent].result = ret[Str("open")].result

C7_Witness ==
    /\ Both(Absent, Str("open"))
    /\ ~ret[Absent].result.isError
    /\ Len(ret[Absent].result.text) = 2
    /\ Len(arg.index) = 2

====
